---- MODULE Spec2Model ----
(***************************************************************************)
(* Model of the backtesting engine of app/strategies/backtesting.py:       *)
(* BacktestEngine.run_backtest, BacktestEngine._process_signal,            *)
(* BacktestEngine._calculate_results and MockMarketDataService.            *)
(*                                                                         *)
(* Numbers.  Prices and quantities are integers.  Every amount of money    *)
(* (capital, pnl, fees, equity) is an integer count of 1/Scale currency    *)
(* units, so that price * quantity * commission_rate is exact:             *)
(* commission_rate is the integer r standing for the rate r/Scale.         *)
(* A quotient the code computes with "/" is kept as the exact fraction     *)
(* [num, den]; den = 0 stands for the inf/nan numpy produces.              *)
(*                                                                         *)
(* Trade.  The dataclass declares exit_time and exit_price without a       *)
(* default, so a construction that does not pass them raises TypeError.    *)
(* _process_signal constructs its Trade that way (lines 281-289): every    *)
(* accepted opening signal raises, the per-bar handler of run_backtest     *)
(* swallows the exception, and no position is ever opened.  The code that  *)
(* handles open positions is translated all the same.                      *)
(*                                                                         *)
(* Objects.  Trade objects live in heap (a sequence, the object's identity *)
(* is its index); trades and open_positions hold identities, as the        *)
(* Python list and dict hold references.                                   *)
(***************************************************************************)
EXTENDS Integers, Sequences, FiniteSets, TLC

VARIABLES start_date, end_date, provider,
          df, initial_capital, commission_rate,
          pc, i, mock, view,
          heap, trades, open_positions,
          equity_curve, current_capital, peak_equity, max_drawdown,
          results,
          processed,
          strategy, backtested, pending, batch, sweep, data_cache, served

(* What the caller asks for and what the exchange client does with it.     *)
request == <<start_date, end_date, provider>>

(* What outlives one run_backtest call: the strategy instance and the      *)
(* symbol it is run on, the signals execute() returned that the loop has   *)
(* not reached yet, the batch the run belongs to, the parameter sweep, and *)
(* the data manager's cache with what it last served.                      *)
session == <<strategy, backtested, pending, batch, sweep, data_cache, served>>

vars == <<request, session, df, initial_capital, commission_rate, pc, i, mock, view,
          heap, trades, open_positions, equity_curve, current_capital,
          peak_equity, max_drawdown, results, processed>>

(* ---------------------------- bounds and inputs ----------------------- *)

MaxBars == 2
MaxProcessed == 2
MaxPoints == 2
MaxStatsTrades == 2

Scale == 1000

Symbols == {"BTC"}
Prices == {100, 110}
NoPrice == -1
SignalPrices == {NoPrice, 0, 110}
Quantities == {0, 10}
Actions == {"BUY", "SELL_SHORT", "SELL", "COVER", "HOLD"}
Limits == {0, 1, 2, 100}
Capitals == {10000 * Scale}
CommissionRates == {1}
StatsEquities == {9000 * Scale, 10000 * Scale, 11000 * Scale}
StatsPnls == {-100 * Scale, 100 * Scale}
StartDates == {1}
EndDates == {0, 1, 2}

(* What the CoinDCX client does when asked for the candles of the range:   *)
(* it answers (with candles, or with none), or it raises.                  *)
Providers == {"answers", "raises"}

None == -1

(* The signals a strategy may return.  One that is rejected before its     *)
(* price is looked at (no quantity, or an action the engine does not know) *)
(* is drawn once, without a price.                                         *)
Signals ==
    { s \in [symbol : Symbols, action : Actions, price : SignalPrices, quantity : Quantities] :
        (s.quantity <= 0 \/ s.action = "HOLD") => s.price = NoPrice }

(* ------------------------------ helpers -------------------------------- *)

Frac(n, d) == [num |-> n, den |-> d]

(* a/b < c/d for integers a, c and b, d > 0, by comparing the integer parts *)
(* and then the reciprocals of the remainders: exact, and no product is    *)
(* formed that a machine integer cannot hold.                              *)
RECURSIVE QuotLess(_, _, _, _)
QuotLess(a, b, c, d) ==
    IF (a \div b) # (c \div d) THEN (a \div b) < (c \div d)
    ELSE IF c % d = 0 THEN FALSE
    ELSE IF a % b = 0 THEN TRUE
    ELSE QuotLess(d, c % d, b, a % b)

FracLess(a, b) == QuotLess(a.num, a.den, b.num, b.den)

FracEq(a, b) == ~FracLess(a, b) /\ ~FracLess(b, a)

FracMax(a, b) == IF FracLess(a, b) THEN b ELSE a

RECURSIVE SumSeq(_)
SumSeq(s) == IF s = <<>> THEN 0 ELSE Head(s) + SumSeq(Tail(s))

Last(s) == s[Len(s)]

RemoveAt(s, k) == SubSeq(s, 1, k - 1) \o SubSeq(s, k + 1, Len(s))

BarSeries(n) == { [k \in 1..n |-> [time |-> k - 1, close |-> c[k]]] : c \in [1..n -> Prices] }

(* ------------------------------- Trade --------------------------------- *)

(* lines 19-33 and 281-289: Trade(symbol=, entry_time=, entry_price=,      *)
(* quantity=, side=, strategy_signal=, fees=).  The result is <<>> when    *)
(* the construction raises and the one-element sequence of the new object  *)
(* when it succeeds.  exit_time and exit_price are required and not        *)
(* passed: TypeError.                                                      *)
Trade_with_defaults(symbol, entry_time, entry_price, quantity, side, fees) ==
    << [symbol |-> symbol, entry_time |-> entry_time, exit_time |-> None,
        entry_price |-> entry_price, exit_price |-> None, quantity |-> quantity,
        side |-> side, pnl |-> 0, pnl_percent |-> Frac(0, 1), fees |-> fees,
        is_open |-> TRUE] >>

Trade(symbol, entry_time, entry_price, quantity, side, fees) == <<>>

(* A Sharpe or Sortino ratio.  Its value involves a square root and is not *)
(* kept: what is kept is whether it was computed at all (the dataclass     *)
(* default is 0.0) and whether the deviation it was divided by was zero,   *)
(* in which case the numpy division gave inf or nan.                       *)
Ratio(computed, deviation_zero) ==
    [computed |-> computed, deviation_zero |-> deviation_zero]

BacktestResults ==
    [total_trades |-> 0, winning_trades |-> 0, losing_trades |-> 0,
     win_rate |-> Frac(0, 1), total_return |-> 0,
     total_return_percent |-> Frac(0, 1), total_fees |-> 0,
     max_drawdown |-> 0, max_drawdown_percent |-> Frac(0, 1),
     sharpe_ratio |-> Ratio(FALSE, FALSE), sortino_ratio |-> Ratio(FALSE, FALSE),
     daily_returns |-> <<>>,
     trades |-> <<>>, equity_curve |-> <<>>]

(* ------------------------ MockMarketDataService ------------------------ *)

MockMarketDataService == [current_index |-> 0, current_row |-> None]

update_current_data(index) == [current_index |-> index, current_row |-> index]

get_ticker(m, data) ==
    IF m.current_row = None THEN <<>> ELSE << data[m.current_row + 1] >>

get_candles_through_next(m, data, limit) ==
    LET start_idx == IF m.current_index < limit THEN 0
                     ELSE m.current_index - limit + 1
        end_idx == m.current_index + 2
        stop == IF end_idx < Len(data) THEN end_idx ELSE Len(data)
    IN  SubSeq(data, start_idx + 1, stop)

get_candles_one_more(m, data, limit) ==
    LET start_idx == IF m.current_index < limit THEN 0
                     ELSE m.current_index - limit
        end_idx == m.current_index + 1
        stop == IF end_idx < Len(data) THEN end_idx ELSE Len(data)
    IN  SubSeq(data, start_idx + 1, stop)

get_candles(m, data, limit) ==
    LET start_idx == IF m.current_index < limit THEN 0
                     ELSE m.current_index - limit + 1
        end_idx == m.current_index + 1
        stop == IF end_idx < Len(data) THEN end_idx ELSE Len(data)
    IN  SubSeq(data, start_idx + 1, stop)

(* --------------------------- open_positions ---------------------------- *)

position_key(symbol, action) == <<symbol, action>>

KeyIndex(op, key) ==
    IF \E k \in 1..Len(op) : op[k].key = key
    THEN CHOOSE k \in 1..Len(op) : op[k].key = key
    ELSE 0

HasKey(op, key) == KeyIndex(op, key) # 0

(* ------------------- BacktestEngine._process_signal -------------------- *)

(* The outcome of one call: the returned Trade (its identity, or None),    *)
(* the dict and the objects as the call leaves them, and whether the call  *)
(* raised.  A signal without a 'price' key (NoPrice) is filled at the      *)
(* bar's close, a numpy float64; a price the signal carries is a Python    *)
(* float, and a Python float division by zero raises ZeroDivisionError     *)
(* where a numpy one yields inf/nan.                                       *)
Outcome(ret, op, hp, raised) ==
    [ret |-> ret, open_positions |-> op, heap |-> hp, raised |-> raised]

(* lines 310-314: the realized P&L of a position closed at price.          *)
close_pnl(position, price) ==
    IF position.side = "BUY"
    THEN (price - position.entry_price) * position.quantity * Scale
    ELSE (position.entry_price - price) * position.quantity * Scale

(* lines 276-292: the signal opens a position.                             *)
open_position(signal, price, timestamp, op, hp, rate) ==
    LET key == position_key(signal.symbol, signal.action)
        trade == Trade(signal.symbol, timestamp, price, signal.quantity,
                       signal.action, price * signal.quantity * rate)
        id == Len(hp) + 1
    IN  IF HasKey(op, key) THEN Outcome(None, op, hp, FALSE)
        ELSE IF trade = <<>> THEN Outcome(None, op, hp, TRUE)
        ELSE Outcome(id, Append(op, [key |-> key, id |-> id]),
                     Append(hp, trade[1]), FALSE)

(* lines 294-324: the signal closes a position.  The position leaves the   *)
(* dict at lines 302/305, before the fields are written; the division of   *)
(* line 320 raises when the entry notional is zero and pnl is a Python     *)
(* float, which leaves exit_time, exit_price and pnl written and the rest  *)
(* of the object as it was.                                                *)
close_position(signal, price, timestamp, op, hp, rate) ==
    LET buy_key == position_key(signal.symbol, "BUY")
        short_key == position_key(signal.symbol, "SELL_SHORT")
        k == IF HasKey(op, buy_key) THEN KeyIndex(op, buy_key)
             ELSE KeyIndex(op, short_key)
    IN  IF k = 0 THEN Outcome(None, op, hp, FALSE)
        ELSE LET id == op[k].id
                 position == hp[id]
                 op2 == RemoveAt(op, k)
                 pnl == close_pnl(position, price)
                 notional == position.entry_price * position.quantity * Scale
                 p1 == [position EXCEPT !.exit_time = timestamp,
                                        !.exit_price = price,
                                        !.pnl = pnl]
                 p2 == [p1 EXCEPT !.pnl_percent = Frac(pnl * 100, notional),
                                  !.fees = @ + price * position.quantity * rate,
                                  !.is_open = FALSE]
             IN  IF notional = 0 /\ signal.price # NoPrice
                 THEN Outcome(None, op2, [hp EXCEPT ![id] = p1], TRUE)
                 ELSE Outcome(id, op2, [hp EXCEPT ![id] = p2], FALSE)

(* lines 263-326 *)
process_signal(signal, timestamp, row, op, hp, rate) ==
    LET price == IF signal.price = NoPrice THEN row.close ELSE signal.price
    IN  IF signal.quantity <= 0 THEN Outcome(None, op, hp, FALSE)
        ELSE IF signal.action \in {"BUY", "SELL_SHORT"}
        THEN open_position(signal, price, timestamp, op, hp, rate)
        ELSE IF signal.action \in {"SELL", "COVER"}
        THEN close_position(signal, price, timestamp, op, hp, rate)
        ELSE Outcome(None, op, hp, FALSE)

(* ------------------- BacktestEngine._calculate_results ----------------- *)

(* lines 364-371: the single pass over the equity curve, after its first k *)
(* points: the running peak, which starts at the initial capital, and the  *)
(* largest drawdown seen, as a fraction of the peak it was measured from.  *)
RECURSIVE drawdown_pass_fixed_peak(_, _, _)
drawdown_pass_fixed_peak(curve, k, capital) ==
    IF k = 0 THEN [peak |-> capital, max_dd |-> Frac(0, 1)]
    ELSE LET before == drawdown_pass_fixed_peak(curve, k - 1, capital)
             equity == curve[k]
         IN  IF equity > before.peak
             THEN before
             ELSE [before EXCEPT !.max_dd =
                      FracMax(@, Frac(before.peak - equity, before.peak))]

RECURSIVE drawdown_pass(_, _, _)
drawdown_pass(curve, k, capital) ==
    IF k = 0 THEN [peak |-> capital, max_dd |-> Frac(0, 1)]
    ELSE LET before == drawdown_pass(curve, k - 1, capital)
             equity == curve[k]
         IN  IF equity > before.peak
             THEN [before EXCEPT !.peak = equity]
             ELSE [before EXCEPT !.max_dd =
                      FracMax(@, Frac(before.peak - equity, before.peak))]

(* min(equity_curve), line 373 *)
MinOf(curve) == CHOOSE m \in {curve[k] : k \in 1..Len(curve)} :
                    \A k \in 1..Len(curve) : m <= curve[k]

(* lines 377-380 *)
daily_returns_of(curve) ==
    [k \in 1..(Len(curve) - 1) |-> Frac(curve[k + 1] - curve[k], curve[k])]

(* np.std(...) > 0, lines 386-388 and 396: the deviation of a list of      *)
(* numbers is zero exactly when they are all the same number.              *)
std_is_zero(returns) ==
    \A j, k \in 1..Len(returns) : FracEq(returns[j], returns[k])

(* lines 362-397: the risk metrics, computed for a non-empty curve.        *)
risk_metrics(base, curve, capital) ==
    LET pass == drawdown_pass(curve, Len(curve), capital)
        daily_returns == daily_returns_of(curve)
        negative_returns == SelectSeq(daily_returns, LAMBDA r : r.num < 0)
        with_dd == [base EXCEPT !.max_drawdown = pass.peak - MinOf(curve),
                                !.max_drawdown_percent =
                                    Frac(pass.max_dd.num * 100, pass.max_dd.den),
                                !.daily_returns = daily_returns]
    IN  IF daily_returns = <<>> \/ std_is_zero(daily_returns) THEN with_dd
        ELSE IF negative_returns = <<>>
        THEN [with_dd EXCEPT !.sharpe_ratio = Ratio(TRUE, FALSE)]
        ELSE [with_dd EXCEPT !.sharpe_ratio = Ratio(TRUE, FALSE),
                             !.sortino_ratio =
                                 Ratio(TRUE, std_is_zero(negative_returns))]

(* lines 328-426 *)
calculate_results(hp, trade_ids, curve, capital) ==
    LET base == [BacktestResults EXCEPT !.trades = [k \in 1..Len(trade_ids) |-> hp[trade_ids[k]]],
                                        !.equity_curve = curve]
        closed_trades == SelectSeq(trade_ids, LAMBDA id : ~hp[id].is_open)
        n == Len(closed_trades)
        winning == Cardinality({k \in 1..n : hp[closed_trades[k]].pnl > 0})
        losing == Cardinality({k \in 1..n : hp[closed_trades[k]].pnl < 0})
        total_pnl == SumSeq([k \in 1..n |-> hp[closed_trades[k]].pnl])
        total_fees == SumSeq([k \in 1..n |-> hp[closed_trades[k]].fees])
        stats == [base EXCEPT !.total_trades = n,
                              !.winning_trades = winning,
                              !.losing_trades = losing,
                              !.win_rate = Frac(winning, n),
                              !.total_return = total_pnl - total_fees,
                              !.total_return_percent = Frac((total_pnl - total_fees) * 100, capital),
                              !.total_fees = total_fees]
    IN  IF trade_ids = <<>> \/ closed_trades = <<>> THEN base
        ELSE IF curve = <<>> THEN stats
        ELSE risk_metrics(stats, curve, capital)

(* ---------------------- BacktestEngine.run_backtest -------------------- *)

EmptyView == [candles |-> <<>>, ticker |-> <<>>, limit |-> None]

(* A signal that passes line 270 and names an action the engine handles.   *)
Valid(signal) ==
    signal.quantity > 0 /\ signal.action \in {"BUY", "SELL_SHORT", "SELL", "COVER"}

(* get_historical_data, lines 84-148: the frame of the candles the client  *)
(* answered with, and the empty frame when it answered with none (lines    *)
(* 107-109, 121-123) or raised (lines 146-148).                            *)
get_historical_data(p) ==
    IF p = "raises" THEN {<<>>}
    ELSE UNION { BarSeries(n) : n \in 0..MaxBars }

(* No batch and no sweep is in progress.                                   *)
NoBatch == [step |-> "none"]

NoSweep == [step |-> "none"]

(* One call of run_backtest on its own: a strategy object of any class,   *)
(* no batch, no sweep, a data manager that has served nothing.             *)
SingleRun ==
    /\ strategy = [kind |-> "any", symbols |-> <<"BTC">>, positions |-> {}]
    /\ backtested = "BTC"
    /\ pending = <<>>
    /\ batch = NoBatch
    /\ sweep = NoSweep
    /\ data_cache = {}
    /\ served = <<>>

Init ==
    /\ start_date \in StartDates
    /\ end_date \in EndDates
    /\ provider \in Providers
    /\ df \in get_historical_data(provider)
    /\ initial_capital \in Capitals
    /\ commission_rate \in CommissionRates
    /\ pc = "fetch"
    /\ i = 0
    /\ mock = MockMarketDataService
    /\ view = EmptyView
    /\ heap = <<>>
    /\ trades = <<>>
    /\ open_positions = <<>>
    /\ equity_curve = <<>>
    /\ current_capital = 0
    /\ peak_equity = 0
    /\ max_drawdown = Frac(0, 1)
    /\ results = BacktestResults
    /\ processed = <<>>
    /\ SingleRun

Start_without_empty_check ==
    /\ pc = "fetch"
    /\ IF df = <<>>
       THEN /\ pc' = "raised"
            /\ mock' = MockMarketDataService
            /\ equity_curve' = <<initial_capital>>
            /\ current_capital' = initial_capital
            /\ peak_equity' = initial_capital
            /\ UNCHANGED results
       ELSE /\ pc' = "update"
            /\ mock' = MockMarketDataService
            /\ equity_curve' = <<initial_capital>>
            /\ current_capital' = initial_capital
            /\ peak_equity' = initial_capital
            /\ UNCHANGED results
    /\ UNCHANGED <<request, session, df, initial_capital, commission_rate, i, view,
                   heap, trades, open_positions, max_drawdown, processed>>

(* lines 169-185: the data is fetched; an empty frame ends the run with    *)
(* the default results, otherwise the run's state is initialised.          *)
Start ==
    /\ pc = "fetch"
    /\ IF df = <<>>
       THEN /\ pc' = "done"
            /\ results' = BacktestResults
            /\ UNCHANGED <<mock, equity_curve, current_capital, peak_equity>>
       ELSE /\ pc' = "update"
            /\ mock' = MockMarketDataService
            /\ equity_curve' = <<initial_capital>>
            /\ current_capital' = initial_capital
            /\ peak_equity' = initial_capital
            /\ UNCHANGED results
    /\ UNCHANGED <<request, session, df, initial_capital, commission_rate, i, view,
                   heap, trades, open_positions, max_drawdown, processed>>

(* "continue" and the normal end of the loop body: on to the next bar, or  *)
(* out of the loop after the last one.                                     *)
NextBar ==
    /\ i' = i + 1
    /\ pc' = IF i + 1 < Len(df) THEN "update" ELSE "force_close"

(* line 191 *)
UpdateCurrentData ==
    /\ pc = "update"
    /\ mock' = update_current_data(i)
    /\ pc' = "execute"
    /\ UNCHANGED <<request, session, df, initial_capital, commission_rate, i, view,
                   heap, trades, open_positions, equity_curve,
                   current_capital, peak_equity, max_drawdown, results,
                   processed>>

(* line 194, inside strategy.execute(): the strategy reads its market-data *)
(* service.                                                                *)
StrategyQuery ==
    /\ pc = "execute"
    /\ \E limit \in Limits :
           view' = [candles |-> get_candles(mock, df, limit),
                    ticker |-> get_ticker(mock, df),
                    limit |-> limit]
    /\ UNCHANGED <<request, session, df, initial_capital, commission_rate, pc, i, mock,
                   heap, trades, open_positions, equity_curve,
                   current_capital, peak_equity, max_drawdown, results,
                   processed>>

(* line 194: execute() returns its list of signals.  The list is iterated  *)
(* at line 197; each element is drawn when the loop reaches it, and the    *)
(* list ends when AppendEquity is taken.                                   *)
StrategyReturn ==
    /\ pc = "execute"
    /\ view' = EmptyView
    /\ pc' = "signals"
    /\ UNCHANGED <<request, session, df, initial_capital, commission_rate, i, mock,
                   heap, trades, open_positions, equity_curve,
                   current_capital, peak_equity, max_drawdown, results,
                   processed>>

(* lines 194, 222-224: execute() raises; the bar is abandoned.             *)
StrategyRaise ==
    /\ pc = "execute"
    /\ view' = EmptyView
    /\ NextBar
    /\ UNCHANGED <<request, session, df, initial_capital, commission_rate, mock,
                   heap, trades, open_positions, equity_curve,
                   current_capital, peak_equity, max_drawdown, results,
                   processed>>

(* lines 198-204 and 222-224: one signal of the list goes through          *)
(* _process_signal; what it returns is appended to the trades and, when it *)
(* is a closed trade, booked to the cash; an exception abandons the bar.   *)
(* processed records the valid signals handed to _process_signal, with     *)
(* their bar.                                                              *)
HandleSignal(signal) ==
    LET row == df[i + 1]
        out == process_signal(signal, row.time, row, open_positions, heap,
                              commission_rate)
    IN  /\ processed' = IF Valid(signal)
                        THEN Append(processed, [bar |-> i, signal |-> signal])
                        ELSE processed
        /\ heap' = out.heap
        /\ open_positions' = out.open_positions
        /\ IF out.raised
           THEN /\ NextBar
                /\ UNCHANGED <<trades, current_capital>>
           ELSE /\ UNCHANGED <<pc, i>>
                /\ IF out.ret # None
                   THEN /\ trades' = Append(trades, out.ret)
                        /\ current_capital' =
                             IF ~out.heap[out.ret].is_open
                             THEN current_capital + out.heap[out.ret].pnl
                                                  - out.heap[out.ret].fees
                             ELSE current_capital
                   ELSE UNCHANGED <<trades, current_capital>>

(* lines 197-204, one iteration of the loop over the signals of a strategy *)
(* of any class.                                                           *)
ProcessSignal ==
    /\ pc = "signals"
    /\ \E signal \in Signals :
           /\ Valid(signal) => Len(processed) < MaxProcessed
           /\ HandleSignal(signal)
    /\ UNCHANGED <<request, session, df, initial_capital, commission_rate, mock, view,
                   equity_curve, peak_equity, max_drawdown, results>>

(* lines 206-213: the unrealized P&L the equity point adds to the cash.    *)
unrealized(position, row) ==
    IF position.side = "BUY"
    THEN (row.close - position.entry_price) * position.quantity * Scale
    ELSE 0

current_equity_without_cash(capital, op, hp, row) ==
    SumSeq([k \in 1..Len(op) |-> unrealized(hp[op[k].id], row)])


current_equity(capital, op, hp, row) ==
    capital + SumSeq([k \in 1..Len(op) |-> unrealized(hp[op[k].id], row)])

(* lines 206-220: the bar's equity point, the running peak and drawdown,   *)
(* and the end of the loop body.                                           *)
AppendEquity ==
    /\ pc = "signals"
    /\ LET equity == current_equity(current_capital, open_positions, heap, df[i + 1])
       IN  /\ equity_curve' = Append(equity_curve, equity)
           /\ IF equity > peak_equity
              THEN /\ peak_equity' = equity
                   /\ UNCHANGED max_drawdown
              ELSE /\ max_drawdown' = FracMax(max_drawdown,
                                              Frac(peak_equity - equity, peak_equity))
                   /\ UNCHANGED peak_equity
    /\ NextBar
    /\ UNCHANGED <<request, session, df, initial_capital, commission_rate, mock, view,
                   heap, trades, open_positions, current_capital, results,
                   processed>>

(* lines 231-248: the Trade of a position closed at the end of the window. *)
(* final_price is a numpy float64, so the division does not raise.         *)
exit_trade(position, final_timestamp, final_price, rate) ==
    LET pnl == IF position.side = "BUY"
               THEN (final_price - position.entry_price) * position.quantity * Scale
               ELSE (position.entry_price - final_price) * position.quantity * Scale
    IN  [symbol |-> position.symbol, entry_time |-> position.entry_time,
         exit_time |-> final_timestamp, entry_price |-> position.entry_price,
         exit_price |-> final_price, quantity |-> position.quantity,
         side |-> position.side, pnl |-> pnl,
         pnl_percent |-> Frac(pnl * 100, position.entry_price * position.quantity * Scale),
         fees |-> final_price * position.quantity * rate,
         is_open |-> FALSE]

(* lines 230-252: the loop over the positions still open, in the dict's    *)
(* insertion order.                                                        *)
RECURSIVE close_remaining(_, _, _, _, _, _, _)
close_remaining(op, hp, tr, capital, final_timestamp, final_price, rate) ==
    IF op = <<>>
    THEN [heap |-> hp, trades |-> tr, current_capital |-> capital]
    ELSE LET t == exit_trade(hp[Head(op).id], final_timestamp, final_price, rate)
         IN  close_remaining(Tail(op), Append(hp, t), Append(tr, Len(hp) + 1),
                             capital + t.pnl - t.fees,
                             final_timestamp, final_price, rate)

(* lines 226-252 *)
CloseRemaining ==
    /\ pc = "force_close"
    /\ LET out == close_remaining(open_positions, heap, trades, current_capital,
                                  Last(df).time, Last(df).close, commission_rate)
       IN  /\ heap' = out.heap
           /\ trades' = out.trades
           /\ current_capital' = out.current_capital
    /\ open_positions' = <<>>
    /\ pc' = "results"
    /\ UNCHANGED <<request, session, df, initial_capital, commission_rate, i, mock, view,
                   equity_curve, peak_equity, max_drawdown, results, processed>>

(* lines 255-261 *)
CalculateResults ==
    /\ pc = "results"
    /\ results' = calculate_results(heap, trades, equity_curve, initial_capital)
    /\ pc' = "done"
    /\ UNCHANGED <<request, session, df, initial_capital, commission_rate, i, mock, view,
                   heap, trades, open_positions, equity_curve,
                   current_capital, peak_equity, max_drawdown, processed>>

Next ==
    \/ Start
    \/ UpdateCurrentData
    \/ StrategyQuery
    \/ StrategyReturn
    \/ StrategyRaise
    \/ ProcessSignal
    \/ AppendEquity
    \/ CloseRemaining
    \/ CalculateResults

Spec == Init /\ [][Next]_vars

(* --------- BacktestEngine._calculate_results, called on its own -------- *)

(* The method applied to a trade list and an equity curve given to it: the *)
(* trades are closed ones with a gain or a loss, or open ones; the curve   *)
(* starts with the initial capital (line 178) and stays positive.  The     *)
(* equity of a run moves only through a position, and the end of the       *)
(* window closes every position, so a curve that moves comes with a closed *)
(* trade.                                                                  *)
StatsTrade(pnl, is_open) ==
    [symbol |-> "BTC", entry_time |-> 0, exit_time |-> IF is_open THEN None ELSE 1,
     entry_price |-> 100, exit_price |-> IF is_open THEN None ELSE 100 + pnl \div (10 * Scale),
     quantity |-> 10, side |-> "BUY", pnl |-> pnl,
     pnl_percent |-> Frac(pnl * 100, 100 * 10 * Scale),
     fees |-> IF is_open THEN 1 * Scale ELSE 2 * Scale, is_open |-> is_open]

StatsTrades == {StatsTrade(pnl, FALSE) : pnl \in StatsPnls} \cup {StatsTrade(0, TRUE)}

StatsTradeLists == UNION { [1..n -> StatsTrades] : n \in 0..MaxStatsTrades }

StatsCurves(capital) ==
    { <<capital>> \o points : points \in UNION { [1..n -> StatsEquities] : n \in 0..MaxPoints } }

Flat(curve) == \A k \in 1..Len(curve) : curve[k] = curve[1]

StatsInit ==
    /\ start_date \in StartDates
    /\ end_date = 2
    /\ provider = "answers"
    /\ df = <<>>
    /\ initial_capital \in Capitals
    /\ commission_rate \in CommissionRates
    /\ pc = "results"
    /\ i = 0
    /\ mock = MockMarketDataService
    /\ view = EmptyView
    /\ heap \in StatsTradeLists
    /\ trades = [k \in 1..Len(heap) |-> k]
    /\ open_positions = <<>>
    /\ equity_curve \in StatsCurves(initial_capital)
    /\ (\A k \in 1..Len(heap) : heap[k].is_open) => Flat(equity_curve)
    /\ current_capital = initial_capital
    /\ peak_equity = initial_capital
    /\ max_drawdown = Frac(0, 1)
    /\ results = BacktestResults
    /\ processed = <<>>
    /\ SingleRun

StatsNext == CalculateResults

StatsSpec == StatsInit /\ [][StatsNext]_vars

(* ------------- RSIStrategy and GridTradingStrategy.execute ------------- *)

(* The parameters the strategies are created with: an RSI over one delta,  *)
(* the default thresholds; a grid of one level on each side of its centre, *)
(* ten percent apart; 900 to spend per position or grid level.             *)
StrategyParameters ==
    [rsi_period |-> 1, rsi_oversold |-> 30, rsi_overbought |-> 70,
     max_position_size |-> 900, stop_loss_percent |-> 3,
     take_profit_percent |-> 6,
     grid_levels |-> 2, grid_spacing_percent |-> 10, base_order_size |-> 900]

(* BaseStrategy.__init__, lines 15-37: a new instance holds no position.   *)
BaseStrategy(kind, symbols) ==
    [kind |-> kind, symbols |-> symbols, positions |-> {}]

(* self.positions.get(symbol, {}): the entry of the symbol, if there is    *)
(* one.                                                                    *)
positions_get_always_held(positions, sym) ==
    {[symbol |-> sym, side |-> "BUY", entry_price |-> 100, quantity |-> 9,
      grid_center |-> 100, grid_levels |-> {}, total_invested |-> 0]}

positions_get(positions, sym) == {p \in positions : p.symbol = sym}

(* calculate_rsi, lines 37-53: 50 when the prices are too few, 100 when    *)
(* the last period deltas hold no loss, else 100 - 100 / (1 + gain/loss),  *)
(* which is 100 * gain / (gain + loss).                                    *)
calculate_rsi(prices, period) ==
    IF Len(prices) < period + 1 THEN Frac(50, 1)
    ELSE LET delta(k) == prices[Len(prices) - k + 1] - prices[Len(prices) - k]
             gain == SumSeq([k \in 1..period |-> IF delta(k) > 0 THEN delta(k) ELSE 0])
             loss == SumSeq([k \in 1..period |-> IF delta(k) < 0 THEN -delta(k) ELSE 0])
         IN  IF loss = 0 THEN Frac(100, 1) ELSE Frac(100 * gain, gain + loss)

(* RSIStrategy.execute, lines 59-121, for one symbol: the signals it adds. *)
rsi_signals(sym, candles, positions, par) ==
    IF Len(candles) < par.rsi_period + 1 THEN <<>>
    ELSE LET prices == [k \in 1..Len(candles) |-> candles[k].close]
             current_price == Last(prices)
             rsi == calculate_rsi(prices, par.rsi_period)
             held == positions_get(positions, sym)
             position == CHOOSE p \in held : TRUE
             open(action) == [symbol |-> sym, action |-> action,
                              price |-> current_price,
                              quantity |-> par.max_position_size \div current_price]
         IN  IF held = {}
             THEN IF ~FracLess(Frac(par.rsi_oversold, 1), rsi) THEN <<open("BUY")>>
                  ELSE IF ~FracLess(rsi, Frac(par.rsi_overbought, 1))
                  THEN <<open("SELL_SHORT")>>
                  ELSE <<>>
             ELSE IF /\ position.side = "BUY"
                     /\ \/ ~FracLess(rsi, Frac(par.rsi_overbought, 1))
                        \/ (current_price - position.entry_price) * 100
                             >= par.take_profit_percent * position.entry_price
                        \/ (current_price - position.entry_price) * 100
                             <= -par.stop_loss_percent * position.entry_price
                  THEN <<[symbol |-> sym, action |-> "SELL", price |-> current_price,
                          quantity |-> position.quantity]>>
                  ELSE <<>>

(* GridTradingStrategy.execute, lines 545-548: the levels of the grid, in  *)
(* the order of the loop, the centre left out.                             *)
grid_level_indices(par) ==
    SelectSeq([k \in 1..(par.grid_levels + 1) |-> k - 1 - par.grid_levels \div 2],
              LAMBDA l : l # 0)

(* lines 549-596, the levels from the k-th on: the signals added and the   *)
(* entry of the symbol as the loop leaves it.  A buy level that the price  *)
(* has reached gives a BUY and is recorded in grid_levels; a sell level    *)
(* gives a SELL while the recorded buy levels hold a quantity.             *)
RECURSIVE grid_levels_pass(_, _, _, _, _, _)
grid_levels_pass(levels, k, sym, current_price, position, par) ==
    IF k > Len(levels) THEN [signals |-> <<>>, position |-> position]
    ELSE LET l == levels[k]
             grid_spacing == (position.grid_center * par.grid_spacing_percent) \div 100
             grid_price == position.grid_center + l * grid_spacing
             quantity == par.base_order_size \div grid_price
             placed == \E g \in position.grid_levels : g.level = l
             total_quantity == SumSeq([j \in 1..Len(levels) |->
                                  IF \E g \in position.grid_levels :
                                         g.level = levels[j] /\ g.side = "BUY"
                                  THEN (CHOOSE g \in position.grid_levels :
                                            g.level = levels[j]).quantity
                                  ELSE 0])
             buy == ~placed /\ l < 0 /\ current_price * 1000 <= grid_price * 1001
             sell == /\ ~placed /\ l > 0 /\ current_price * 1000 >= grid_price * 999
                     /\ total_quantity > 0
             after == IF buy
                      THEN [position EXCEPT !.grid_levels = @ \cup
                               {[level |-> l, price |-> grid_price,
                                 quantity |-> quantity, side |-> "BUY"]}]
                      ELSE position
             rest == grid_levels_pass(levels, k + 1, sym, current_price, after, par)
             signal == IF buy
                       THEN <<[symbol |-> sym, action |-> "BUY", price |-> grid_price,
                               quantity |-> quantity]>>
                       ELSE IF sell
                       THEN <<[symbol |-> sym, action |-> "SELL", price |-> grid_price,
                               quantity |-> IF quantity < total_quantity
                                            THEN quantity ELSE total_quantity]>>
                       ELSE <<>>
         IN  [signals |-> signal \o rest.signals, position |-> rest.position]

(* lines 523-599, for one symbol: the grid is centred on the first price   *)
(* seen for the symbol, then the levels are gone through.                  *)
grid_signals(sym, ticker, positions, par) ==
    IF ticker = <<>> \/ ticker[1].close <= 0
    THEN [signals |-> <<>>, positions |-> positions]
    ELSE LET current_price == ticker[1].close
             held == positions_get(positions, sym)
             position == IF held = {}
                         THEN [symbol |-> sym, grid_center |-> current_price,
                               grid_levels |-> {}, total_invested |-> 0]
                         ELSE CHOOSE p \in held : TRUE
             out == grid_levels_pass(grid_level_indices(par), 1, sym,
                                     current_price, position, par)
         IN  [signals |-> out.signals,
              positions |-> (positions \ held) \cup {out.position}]

(* execute(): the loop over self.symbols, from the k-th symbol on.  The    *)
(* mock service is asked with each symbol and answers from the frame of    *)
(* the run whatever the symbol is (backtesting.py, lines 444-481).         *)
RECURSIVE execute(_, _, _, _, _)
execute(s, k, m, data, par) ==
    IF k > Len(s.symbols) THEN [signals |-> <<>>, positions |-> s.positions]
    ELSE LET sym == s.symbols[k]
             here == IF s.kind = "rsi"
                     THEN [signals |-> rsi_signals(sym, get_candles(m, data, 100),
                                                   s.positions, par),
                           positions |-> s.positions]
                     ELSE grid_signals(sym, get_ticker(m, data), s.positions, par)
             rest == execute([s EXCEPT !.positions = here.positions], k + 1,
                             m, data, par)
         IN  [signals |-> here.signals \o rest.signals,
              positions |-> rest.positions]


(* ------- BacktestEngine._process_signal, called on a given ledger ------ *)

(* The loop of lines 197-204 applied to a dict of open positions handed to *)
(* _process_signal: Trade objects built with every field of the dataclass  *)
(* given (lines 19-33), one per key at most, over a series of one bar.     *)
LedgerEntryPrices == {0, 100}

LedgerTrade(side, entry_price, rate) ==
    [symbol |-> "BTC", entry_time |-> 0, exit_time |-> None,
     entry_price |-> entry_price, exit_price |-> None, quantity |-> 10,
     side |-> side, pnl |-> 0, pnl_percent |-> Frac(0, 1),
     fees |-> entry_price * 10 * rate, is_open |-> TRUE]

Ledgers(rate) ==
    {<<>>}
    \cup { <<LedgerTrade(side, p, rate)>> :
             side \in {"BUY", "SELL_SHORT"}, p \in LedgerEntryPrices }
    \cup { <<LedgerTrade("BUY", p, rate), LedgerTrade("SELL_SHORT", q, rate)>> :
             p \in LedgerEntryPrices, q \in LedgerEntryPrices }

LedgerInit ==
    /\ start_date \in StartDates
    /\ end_date = 2
    /\ provider = "answers"
    /\ df \in BarSeries(1)
    /\ initial_capital \in Capitals
    /\ commission_rate \in CommissionRates
    /\ pc = "signals"
    /\ i = 0
    /\ mock = update_current_data(0)
    /\ view = EmptyView
    /\ heap \in Ledgers(commission_rate)
    /\ trades = <<>>
    /\ open_positions = [k \in 1..Len(heap) |->
                           [key |-> position_key(heap[k].symbol, heap[k].side),
                            id |-> k]]
    /\ equity_curve = <<initial_capital>>
    /\ current_capital = initial_capital
    /\ peak_equity = initial_capital
    /\ max_drawdown = Frac(0, 1)
    /\ results = BacktestResults
    /\ processed = <<>>
    /\ SingleRun

LedgerNext == ProcessSignal

LedgerSpec == LedgerInit /\ [][LedgerNext]_vars


(* -------- HistoricalDataManager.get_historical_data and its cache ------ *)

(* The variables of a run, for the specifications in which no run is in    *)
(* progress.                                                               *)
run == <<df, initial_capital, commission_rate, pc, i, mock, view, heap,
         trades, open_positions, equity_curve, current_capital, peak_equity,
         max_drawdown, results, processed>>

NoRun ==
    /\ start_date \in StartDates
    /\ end_date = 2
    /\ provider = "answers"
    /\ df = <<>>
    /\ initial_capital \in Capitals
    /\ commission_rate \in CommissionRates
    /\ pc = "idle"
    /\ i = 0
    /\ mock = MockMarketDataService
    /\ view = EmptyView
    /\ heap = <<>>
    /\ trades = <<>>
    /\ open_positions = <<>>
    /\ equity_curve = <<>>
    /\ current_capital = 0
    /\ peak_equity = 0
    /\ max_drawdown = Frac(0, 1)
    /\ results = BacktestResults
    /\ processed = <<>>

(* A datetime: its calendar date and its time of day.                      *)
Datetimes(dates, times) == [date : dates, time : times]

(* The calls of get_historical_data: symbol, interval, start and end.      *)
DataRequests ==
    [symbol : {"BTC", "ETH"}, interval : {"1h", "1d"},
     start_date : Datetimes({1}, {0, 12}), end_date : Datetimes({2}, {0, 12})]

(* line 86: the key is built from the dates of the two datetimes.          *)
cache_key(req) ==
    <<req.symbol, req.interval, req.start_date.date, req.end_date.date>>

(* lines 93-94, 112-138: the frame built from the candles the exchange     *)
(* answers with for the request's own second-resolution timestamps; it is  *)
(* identified by the range it covers.                                      *)
candles_frame(req) == req

EmptyFrame == <<>>

(* self.data_cache, a dict: its items.                                     *)
Cached(cache, key) == \E item \in cache : item.key = key

Lookup(cache, key) == (CHOOSE item \in cache : item.key = key).frame

(* lines 84-148: one call.  A hit returns the cached frame (lines 88-89);  *)
(* otherwise the exchange is asked, and its candles are cached and         *)
(* returned (lines 141-144), or it has none, or no pair, or it raises, and *)
(* an empty frame is returned and nothing cached (lines 107-109, 121-123,  *)
(* 146-148).                                                               *)
GetHistoricalData ==
    /\ pc = "idle"
    /\ \E req \in DataRequests, answer \in {"candles", "none", "raises"} :
        LET key == cache_key(req)
        IN  IF Cached(data_cache, key)
            THEN /\ served' = [request |-> req, hit |-> TRUE,
                               frame |-> Lookup(data_cache, key)]
                 /\ UNCHANGED data_cache
            ELSE IF answer = "candles"
            THEN /\ data_cache' = data_cache \cup
                                     {[key |-> key, frame |-> candles_frame(req)]}
                 /\ served' = [request |-> req, hit |-> FALSE,
                               frame |-> candles_frame(req)]
            ELSE /\ served' = [request |-> req, hit |-> FALSE, frame |-> EmptyFrame]
                 /\ UNCHANGED data_cache
    /\ UNCHANGED <<request, run, strategy, backtested, pending, batch, sweep>>

CacheInit ==
    /\ NoRun
    /\ SingleRun

CacheNext == GetHistoricalData

CacheSpec == CacheInit /\ [][CacheNext]_vars


(* ------------------ the optimize-strategy endpoint --------------------- *)

(* The entries of request.parameter_ranges, in the dict's order: a range   *)
(* from start to end by step, a list of choices, or a type the endpoint    *)
(* does not know.                                                          *)
MaxValues == 51

ParameterRange(n) == [type |-> "range", start |-> 1, end |-> n, step |-> 1]

ParameterChoices(values) == [type |-> "choices", values |-> values]

ParameterRanges ==
    { <<>>,
      <<ParameterRange(2)>>,
      <<ParameterChoices(<<7, 5>>), ParameterRange(2)>>,
      <<ParameterRange(2), ParameterRange(MaxValues - 1)>>,
      <<ParameterRange(2), ParameterRange(MaxValues)>>,
      <<ParameterRange(MaxValues), ParameterChoices(<<7, 5>>)>>,
      <<ParameterRange(2), [type |-> "other"]>> }

(* lines 245-254: the values of a range, counted up from start while they  *)
(* do not pass end.                                                        *)
RECURSIVE range_values(_, _, _)
range_values(current, end, step) ==
    IF current <= end THEN <<current>> \o range_values(current + step, end, step)
    ELSE <<>>

(* lines 245-260; <<"ValueError">> stands for the exception of line 260.   *)
values_of(param_range) ==
    IF param_range.type = "range"
    THEN range_values(param_range.start, param_range.end, param_range.step)
    ELSE IF param_range.type = "choices" THEN param_range.values
    ELSE <<"ValueError">>

(* lines 233-265: the combinations in the order they are appended, the     *)
(* first parameter varying slowest; a combination is the values of the     *)
(* parameters in the dict's order.                                         *)
RECURSIVE generate_combinations(_, _)
RECURSIVE generate_for_values(_, _, _)
generate_combinations(param_ranges, current_params) ==
    IF param_ranges = <<>> THEN <<current_params>>
    ELSE generate_for_values(values_of(Head(param_ranges)), Tail(param_ranges),
                             current_params)

generate_for_values(values, remaining_ranges, current_params) ==
    IF values = <<>> THEN <<>>
    ELSE generate_combinations(remaining_ranges, Append(current_params, Head(values)))
         \o generate_for_values(Tail(values), remaining_ranges, current_params)

(* line 260 is reached for some parameter.                                 *)
UnknownType(param_ranges) ==
    \E k \in 1..Len(param_ranges) :
        param_ranges[k].type \notin {"range", "choices"}

SweepLimit == 100

limit_combinations_unlimited(param_combinations) == param_combinations

(* lines 270-272 *)
limit_combinations(param_combinations) ==
    IF Len(param_combinations) > SweepLimit
    THEN SubSeq(param_combinations, 1, SweepLimit)
    ELSE param_combinations

(* The combinations whose backtest raises: none, the first, or the one at  *)
(* the limit.                                                              *)
FailingTests == {{}, {1}, {SweepLimit}}

SweepInit ==
    /\ NoRun
    /\ strategy = [kind |-> "any", symbols |-> <<"BTC">>, positions |-> {}]
    /\ backtested = "BTC"
    /\ pending = <<>>
    /\ batch = NoBatch
    /\ data_cache = {}
    /\ served = <<>>
    /\ \E ranges \in ParameterRanges, failing \in FailingTests :
           sweep = [step |-> "generate", parameter_ranges |-> ranges,
                    failing |-> failing, generated |-> 0,
                    param_combinations |-> <<>>, tested |-> <<>>,
                    optimization_results |-> <<>>, response |-> <<>>]

(* lines 230-272: the combinations are generated and cut to the limit; an  *)
(* unknown parameter type ends the request at lines 340-342.               *)
GenerateCombinations ==
    /\ sweep.step = "generate"
    /\ IF UnknownType(sweep.parameter_ranges)
       THEN sweep' = [sweep EXCEPT !.step = "responded",
                                   !.response = [status |-> 500]]
       ELSE LET all == generate_combinations(sweep.parameter_ranges, <<>>)
            IN  sweep' = [sweep EXCEPT !.step = "test",
                                       !.generated = Len(all),
                                       !.param_combinations = limit_combinations(all)]
    /\ UNCHANGED <<request, run, strategy, backtested, pending, batch,
                   data_cache, served>>

(* lines 275-325: one iteration of the loop, the backtest of the next      *)
(* combination and its entry in optimization_results.                      *)
TestCombination ==
    /\ sweep.step = "test"
    /\ Len(sweep.tested) < Len(sweep.param_combinations)
    /\ LET k == Len(sweep.tested) + 1
           params == sweep.param_combinations[k]
           entry == IF k \in sweep.failing
                    THEN [parameters |-> params, error |-> TRUE]
                    ELSE [parameters |-> params, error |-> FALSE]
       IN  sweep' = [sweep EXCEPT !.tested = Append(@, params),
                                  !.optimization_results = Append(@, entry)]
    /\ UNCHANGED <<request, run, strategy, backtested, pending, batch,
                   data_cache, served>>

(* lines 327-338 *)
SweepRespond ==
    /\ sweep.step = "test"
    /\ Len(sweep.tested) = Len(sweep.param_combinations)
    /\ LET valid_results == SelectSeq(sweep.optimization_results,
                                      LAMBDA r : ~r.error)
       IN  sweep' = [sweep EXCEPT
                       !.step = "responded",
                       !.response = [status |-> 200,
                                     total_combinations_tested |->
                                         Len(sweep.param_combinations),
                                     successful_tests |-> Len(valid_results)]]
    /\ UNCHANGED <<request, run, strategy, backtested, pending, batch,
                   data_cache, served>>

SweepNext ==
    \/ GenerateCombinations
    \/ TestCombination
    \/ SweepRespond

SweepSpec == SweepInit /\ [][SweepNext]_vars


(* ---------- the run-backtest and compare-strategies endpoints ---------- *)

STRATEGY_REGISTRY ==
    {"rsi", "bollinger_bands", "macd", "volume_breakout", "grid_trading"}

(* A request: the strategy names (one for run-backtest), the symbols, and  *)
(* the combinations (index of the strategy, index of the symbol) on which  *)
(* engine.run_backtest raises.                                             *)
BatchCombinations(names, symbols) == (1..Len(names)) \X (1..Len(symbols))

BatchRequest(kind, names, symbols, raising) ==
    [step |-> "create", kind |-> kind, strategy_names |-> names,
     symbols |-> symbols, raising |-> raising, s |-> 1, y |-> 1,
     output |-> <<>>, response |-> <<>>]

BatchSymbols == {<<"BTC">>, <<"BTC", "ETH">>}

BatchRequests ==
    { BatchRequest("run_backtest", names, symbols, raising) :
        names \in {<<"rsi">>, <<"nope">>}, symbols \in BatchSymbols,
        raising \in SUBSET BatchCombinations(<<"rsi">>, <<"BTC", "ETH">>) }
    \cup
    { BatchRequest("compare", names, symbols, raising) :
        names \in {<<"rsi">>, <<"rsi", "grid_trading">>, <<"rsi", "nope">>},
        symbols \in BatchSymbols,
        raising \in SUBSET BatchCombinations(<<"rsi", "grid_trading">>, <<"BTC">>) }

(* What run_backtest returns for a combination that does not raise.        *)
ResultOf(name, sym) == <<name, sym>>

(* endpoints, lines 59-64: create_strategy raises ValueError for a name    *)
(* that is not registered.                                                 *)
create_strategy_raises(name) == name \notin STRATEGY_REGISTRY

(* The loops advance over the symbols, then over the strategies.           *)
Advance(b) ==
    IF b.y < Len(b.symbols) THEN [b EXCEPT !.y = @ + 1]
    ELSE [b EXCEPT !.y = 1, !.s = @ + 1]

BatchInit ==
    /\ NoRun
    /\ strategy = [kind |-> "any", symbols |-> <<"BTC">>, positions |-> {}]
    /\ backtested = "BTC"
    /\ pending = <<>>
    /\ data_cache = {}
    /\ served = <<>>
    /\ \/ /\ batch \in BatchRequests
          /\ sweep = NoSweep
       \/ /\ batch = NoBatch
          /\ \E ranges \in ParameterRanges, failing \in FailingTests :
                 sweep = [step |-> "generate", parameter_ranges |-> ranges,
                          failing |-> failing, generated |-> 0,
                          param_combinations |-> <<>>, tested |-> <<>>,
                          optimization_results |-> <<>>, response |-> <<>>]

(* run-backtest, lines 95-112 and 176-178: the strategy is created once,   *)
(* outside the loop; a ValueError ends the request with status 500.        *)
BacktestCreate ==
    /\ batch.step = "create"
    /\ batch.kind = "run_backtest"
    /\ batch' = IF create_strategy_raises(batch.strategy_names[1])
                THEN [batch EXCEPT !.step = "responded",
                                   !.response = [status |-> 500]]
                ELSE [batch EXCEPT !.step = "run"]
    /\ UNCHANGED <<request, run, strategy, backtested, pending, sweep,
                   data_cache, served>>

(* run-backtest, lines 114-158: one symbol; a failure is appended as an    *)
(* entry with the symbol and the error.                                    *)
BacktestSymbol ==
    /\ batch.step = "run"
    /\ batch.kind = "run_backtest"
    /\ batch.s <= Len(batch.strategy_names)
    /\ LET name == batch.strategy_names[batch.s]
           sym == batch.symbols[batch.y]
           entry == IF <<batch.s, batch.y>> \in batch.raising
                    THEN [strategy |-> name, symbol |-> sym, error |-> TRUE,
                          result |-> None]
                    ELSE [strategy |-> name, symbol |-> sym, error |-> FALSE,
                          result |-> ResultOf(name, sym)]
       IN  batch' = Advance([batch EXCEPT !.output = Append(@, entry)])
    /\ UNCHANGED <<request, run, strategy, backtested, pending, sweep,
                   data_cache, served>>

(* compare-strategies, lines 183-188 and 217-219: every strategy is        *)
(* created before any run; a ValueError ends the request with status 500.  *)
CompareCreate ==
    /\ batch.step = "create"
    /\ batch.kind = "compare"
    /\ batch' = IF \E k \in 1..Len(batch.strategy_names) :
                       create_strategy_raises(batch.strategy_names[k])
                THEN [batch EXCEPT !.step = "responded",
                                   !.response = [status |-> 500]]
                ELSE [batch EXCEPT !.step = "run"]
    /\ UNCHANGED <<request, run, strategy, backtested, pending, sweep,
                   data_cache, served>>

(* StrategyComparison.compare_strategies, lines 573-585: one strategy on   *)
(* one symbol; a failure is logged and nothing is appended.                *)
CompareCombination ==
    /\ batch.step = "run"
    /\ batch.kind = "compare"
    /\ batch.s <= Len(batch.strategy_names)
    /\ LET name == batch.strategy_names[batch.s]
           sym == batch.symbols[batch.y]
           entry == [strategy |-> name, symbol |-> sym, error |-> FALSE,
                     result |-> ResultOf(name, sym)]
       IN  batch' = IF <<batch.s, batch.y>> \in batch.raising
                    THEN Advance(batch)
                    ELSE Advance([batch EXCEPT !.output = Append(@, entry)])
    /\ UNCHANGED <<request, run, strategy, backtested, pending, sweep,
                   data_cache, served>>

(* run-backtest, lines 160-174, and compare-strategies, lines 190-215: the *)
(* response carries the entries gathered.                                  *)
BatchRespond ==
    /\ batch.step = "run"
    /\ batch.s > Len(batch.strategy_names)
    /\ batch' = [batch EXCEPT !.step = "responded",
                              !.response = [status |-> 200,
                                            entries |-> batch.output]]
    /\ UNCHANGED <<request, run, strategy, backtested, pending, sweep,
                   data_cache, served>>

BatchNext ==
    \/ BacktestCreate
    \/ BacktestSymbol
    \/ CompareCreate
    \/ CompareCombination
    \/ BatchRespond
    \/ GenerateCombinations
    \/ TestCombination
    \/ SweepRespond

BatchSpec == BatchInit /\ [][BatchNext]_vars


(* ------ run-backtest over several symbols with a concrete strategy ----- *)

(* The request names an RSI or a grid strategy and two symbols; the        *)
(* exchange has a frame of up to StrategyBars bars for each symbol.        *)
StrategyBars == 3

StrategyPrices == {90, 100}

StrategyFrames ==
    UNION { { [k \in 1..n |-> [time |-> k - 1, close |-> c[k]]] :
                c \in [1..n -> StrategyPrices] } : n \in 0..StrategyBars }

StrategyInit ==
    /\ NoRun
    /\ strategy \in { BaseStrategy(kind, <<"BTC", "ETH">>) :
                        kind \in {"rsi", "grid_trading"} }
    /\ backtested = "BTC"
    /\ pending = <<>>
    /\ \E frames \in [1..2 -> StrategyFrames] :
           batch = [step |-> "run", kind |-> "run_backtest",
                    symbols |-> <<"BTC", "ETH">>, frames |-> frames,
                    y |-> 1, output |-> <<>>]
    /\ sweep = NoSweep
    /\ data_cache = {}
    /\ served = <<>>

(* endpoints, lines 114-122, and run_backtest, lines 167-181: the next     *)
(* symbol of the request is handed to engine.run_backtest with the one     *)
(* strategy instance; the locals of the run start afresh.                  *)
BeginRun ==
    /\ pc = "idle"
    /\ batch.step = "run"
    /\ batch.y <= Len(batch.symbols)
    /\ backtested' = batch.symbols[batch.y]
    /\ df' = batch.frames[batch.y]
    /\ pc' = "fetch"
    /\ i' = 0
    /\ mock' = MockMarketDataService
    /\ view' = EmptyView
    /\ heap' = <<>>
    /\ trades' = <<>>
    /\ open_positions' = <<>>
    /\ equity_curve' = <<>>
    /\ current_capital' = 0
    /\ peak_equity' = 0
    /\ max_drawdown' = Frac(0, 1)
    /\ results' = BacktestResults
    /\ processed' = <<>>
    /\ pending' = <<>>
    /\ UNCHANGED <<request, initial_capital, commission_rate, strategy, batch,
                   sweep, data_cache, served>>

(* line 194: strategy.execute() of the RSI or the grid strategy; it        *)
(* returns its signals and leaves what it wrote in self.positions.         *)
Execute ==
    /\ pc = "execute"
    /\ LET out == execute(strategy, 1, mock, df, StrategyParameters)
       IN  /\ pending' = out.signals
           /\ strategy' = [strategy EXCEPT !.positions = out.positions]
    /\ pc' = "signals"
    /\ UNCHANGED <<request, df, initial_capital, commission_rate, i, mock, view,
                   heap, trades, open_positions, equity_curve,
                   current_capital, peak_equity, max_drawdown, results,
                   processed, backtested, batch, sweep, data_cache, served>>

(* lines 197-204: the next signal of the list execute() returned; an       *)
(* exception abandons the bar and the rest of the list (lines 222-224).    *)
ProcessPending ==
    /\ pc = "signals"
    /\ pending # <<>>
    /\ HandleSignal(Head(pending))
    /\ pending' = IF process_signal(Head(pending), df[i + 1].time, df[i + 1],
                                    open_positions, heap, commission_rate).raised
                  THEN <<>>
                  ELSE Tail(pending)
    /\ UNCHANGED <<request, df, initial_capital, commission_rate, mock, view,
                   equity_curve, peak_equity, max_drawdown, results,
                   strategy, backtested, batch, sweep, data_cache, served>>

(* lines 206-220, after the last signal of the list.                       *)
FinishBar ==
    /\ pending = <<>>
    /\ AppendEquity

(* endpoints, lines 123-149: the result of the run is kept for the         *)
(* response, and the loop goes on to the next symbol or ends.              *)
CollectResult ==
    /\ pc = "done"
    /\ batch.step = "run"
    /\ batch' = [batch EXCEPT
                   !.output = Append(@, [symbol |-> backtested,
                                         result |-> results,
                                         signals |-> processed]),
                   !.y = @ + 1,
                   !.step = IF batch.y = Len(batch.symbols)
                            THEN "responded" ELSE "run"]
    /\ pc' = "idle"
    /\ UNCHANGED <<request, df, initial_capital, commission_rate, i, mock, view,
                   heap, trades, open_positions, equity_curve,
                   current_capital, peak_equity, max_drawdown, results,
                   processed, strategy, backtested, pending, sweep,
                   data_cache, served>>

StrategyNext ==
    \/ BeginRun
    \/ Start
    \/ UpdateCurrentData
    \/ Execute
    \/ ProcessPending
    \/ FinishBar
    \/ CloseRemaining
    \/ CalculateResults
    \/ CollectResult

StrategySpec == StrategyInit /\ [][StrategyNext]_vars


TypeOK ==
    /\ pc \in {"fetch", "update", "execute", "signals", "force_close", "results", "done"}
    /\ i \in 0..Len(df)
    /\ Len(processed) <= MaxProcessed
    /\ Len(open_positions) <= 2 * Cardinality(Symbols)

(* ------------------------------ properties ----------------------------- *)

(* A completed run over a non-empty series.                                *)
Completed == pc = "done" /\ df # <<>>

(* What the strategy asked for, read off the signals it emitted.           *)
FillPrice(e) ==
    IF e.signal.price = NoPrice THEN df[e.bar + 1].close ELSE e.signal.price

Opens(e) == e.signal.action \in {"BUY", "SELL_SHORT"}

Closer(side) == IF side = "BUY" THEN "SELL" ELSE "COVER"

(* The strategy asked for one position: an opening signal at a positive    *)
(* price and then either nothing more, or the matching close at a positive *)
(* price.  The position is then closed by that signal, or by the end of    *)
(* the window.                                                             *)
OnePosition ==
    /\ Len(processed) \in {1, 2}
    /\ Opens(processed[1])
    /\ FillPrice(processed[1]) > 0
    /\ Len(processed) = 2 =>
          /\ processed[2].signal.action = Closer(processed[1].signal.action)
          /\ processed[2].signal.symbol = processed[1].signal.symbol
          /\ FillPrice(processed[2]) > 0

Side == processed[1].signal.action
Quantity == processed[1].signal.quantity
EntryPrice == FillPrice(processed[1])
ExitPrice == IF Len(processed) = 2 THEN FillPrice(processed[2]) ELSE Last(df).close

ExpectedPnl ==
    IF Side = "BUY" THEN (ExitPrice - EntryPrice) * Quantity * Scale
    ELSE (EntryPrice - ExitPrice) * Quantity * Scale

MarkToMarket(close) ==
    IF Side = "BUY" THEN (close - EntryPrice) * Quantity * Scale
    ELSE (EntryPrice - close) * Quantity * Scale

ClosedTrades(r) == {k \in 1..Len(r.trades) : ~r.trades[k].is_open}

(* C1: capital conservation.  When a run has completed, the cash left      *)
(* after every position was closed or force-closed equals the initial      *)
(* capital plus the sum of pnl - fees over the returned trade list.        *)
C1_CapitalConservation ==
    Completed =>
        current_capital = initial_capital
            + SumSeq([k \in 1..Len(results.trades) |->
                         results.trades[k].pnl - results.trades[k].fees])

(* C1 witness: a completed run in which the strategy emitted a BUY and     *)
(* later a SELL.                                                           *)
C1_Witness ==
    /\ Completed
    /\ Len(processed) = 2
    /\ processed[1].signal.action = "BUY"
    /\ processed[2].signal.action = "SELL"
    /\ Len(equity_curve) > 1

(* C2: no look-ahead.  Whatever the strategy has obtained from its market  *)
(* data view while bar i is processed, candles with any limit or the       *)
(* ticker, is a bar of the series with index <= i.                         *)
C2_NoLookAhead ==
    /\ \A k \in 1..Len(view.candles) :
          /\ view.candles[k].time <= i
          /\ view.candles[k] = df[view.candles[k].time + 1]
    /\ \A k \in 1..Len(view.ticker) :
          /\ view.ticker[k].time <= i
          /\ view.ticker[k] = df[view.ticker[k].time + 1]

(* C2 witness: on a bar that has a later bar after it, the strategy asked  *)
(* for more candles than have been replayed and holds every bar so far.    *)
C2_Witness ==
    /\ pc = "execute"
    /\ i + 1 < Len(df)
    /\ Len(view.candles) = i + 1
    /\ Len(view.ticker) = 1

(* C3: total_return_percent of a completed run is                          *)
(* (final equity - initial capital) / initial capital x 100, the final     *)
(* equity being the cash once every position is closed; and the run of a   *)
(* single long round trip, BUY 10 at 100 on bar 0 and SELL at 110 on a     *)
(* later bar with commission 0.001 and capital 10000, has a trade with     *)
(* fees 1.0 + 1.1 and pnl 100, final equity 10097.9 and                    *)
(* total_return_percent 0.979.                                             *)
C3_RoundTrip ==
    /\ OnePosition
    /\ Len(processed) = 2
    /\ Side = "BUY" /\ Quantity = 10
    /\ processed[1].bar = 0 /\ processed[2].bar > 0
    /\ EntryPrice = 100 /\ ExitPrice = 110
    /\ commission_rate = 1 /\ initial_capital = 10000 * Scale

C3_TotalReturnPercent ==
    Completed =>
        /\ FracEq(results.total_return_percent,
                  Frac((current_capital - initial_capital) * 100, initial_capital))
        /\ C3_RoundTrip =>
              /\ \E k \in ClosedTrades(results) :
                    /\ results.trades[k].pnl = 100 * Scale
                    /\ results.trades[k].fees = 1000 + 1100
              /\ current_capital = 10097900
              /\ FracEq(results.total_return_percent, Frac(979, 1000))

(* C4: total_fees is the sum over every closed trade, whether closed by a  *)
(* signal or force-closed, of its entry fee plus its exit fee, each fee    *)
(* being fill price x quantity x commission rate and counted once.  Stated *)
(* for the runs of one position, whose one trade is closed either way.     *)
C4_TotalFees ==
    (Completed /\ OnePosition) =>
        results.total_fees = EntryPrice * Quantity * commission_rate
                           + ExitPrice * Quantity * commission_rate

(* C5: the equity point appended for a bar is the cash plus the unrealized *)
(* P&L, at the bar's close, of every open position, long or short.  Stated *)
(* for the bars on which the one position the strategy opened is open.     *)
C5_EquityMarksToMarket ==
    [][ (/\ pc = "signals"
         /\ Len(equity_curve') = Len(equity_curve) + 1
         /\ OnePosition
         /\ Len(processed) = 1)
        => Last(equity_curve') = current_capital + MarkToMarket(df[i + 1].close) ]_vars

(* C6: the entry fee, price x quantity x commission rate, leaves the cash  *)
(* on the bar where the position is opened, not when it is closed.  Stated *)
(* for the one position the strategy opened, for as long as it is open.    *)
C6_EntryFeeAtOpen ==
    (/\ pc \in {"update", "execute", "signals", "force_close"}
     /\ OnePosition
     /\ Len(processed) = 1)
    => current_capital = initial_capital - EntryPrice * Quantity * commission_rate

(* C7: a position closed by a close signal or by the end of the window has *)
(* pnl (exit - entry) x quantity when long and (entry - exit) x quantity   *)
(* when short, and pnl_percent = pnl / (entry x quantity) x 100.  Every    *)
(* closed trade of the result obeys it, and the one position the strategy  *)
(* asked for is such a closed trade.                                       *)
C7_PnlOfTrade(t) ==
    /\ t.pnl = IF t.side = "BUY"
               THEN (t.exit_price - t.entry_price) * t.quantity * Scale
               ELSE (t.entry_price - t.exit_price) * t.quantity * Scale
    /\ t.pnl_percent = Frac(t.pnl * 100, t.entry_price * t.quantity * Scale)

C7_RealizedPnl ==
    Completed =>
        /\ \A k \in ClosedTrades(results) : C7_PnlOfTrade(results.trades[k])
        /\ OnePosition =>
              \E k \in ClosedTrades(results) :
                  /\ results.trades[k].side = Side
                  /\ results.trades[k].entry_price = EntryPrice
                  /\ results.trades[k].exit_price = ExitPrice
                  /\ results.trades[k].pnl = ExpectedPnl

(* C8: SELL closes only a long position and COVER only a short one; when   *)
(* the symbol's only position is on the other side the close is a no-op    *)
(* and the position stays open.  Stated for an open followed by the close  *)
(* of the other side, as the loop stands right after that close.           *)
C8_CloseMatchesSide ==
    (/\ pc = "signals"
     /\ Len(processed) = 2
     /\ Opens(processed[1])
     /\ processed[2].bar = i
     /\ processed[2].signal.symbol = processed[1].signal.symbol
     /\ processed[2].signal.action \in {"SELL", "COVER"}
     /\ processed[2].signal.action # Closer(processed[1].signal.action))
    => /\ HasKey(open_positions,
                 position_key(processed[1].signal.symbol, processed[1].signal.action))
       /\ \A k \in 1..Len(heap) : heap[k].is_open

(* C9: a duplicate open and a close without a position change nothing, so  *)
(* no (symbol, side) ever has two open positions, and two consecutive      *)
(* opens of one side with no close in between leave exactly one open       *)
(* position and no closed trade.                                           *)
C9_DuplicateOpen ==
    /\ \A j, k \in 1..Len(open_positions) :
          open_positions[j].key = open_positions[k].key => j = k
    /\ (/\ pc \in {"update", "execute", "signals", "force_close"}
        /\ Len(processed) = 2
        /\ Opens(processed[1])
        /\ processed[2].signal.action = processed[1].signal.action
        /\ processed[2].signal.symbol = processed[1].signal.symbol)
       => /\ Len(open_positions) = 1
          /\ \A k \in 1..Len(heap) : heap[k].is_open

(* C10: after the last bar every open position is force-closed at the     *)
(* last bar's close and timestamp and none stays open; a position opened   *)
(* on the last bar and never closed by the strategy gives exactly one      *)
(* force-closed trade in the result.                                      *)
C10_ForceClose ==
    Completed =>
        /\ open_positions = <<>>
        /\ (/\ Len(processed) = 1
            /\ Opens(processed[1])
            /\ processed[1].bar = Len(df) - 1)
           => /\ Cardinality(ClosedTrades(results)) = 1
              /\ \A k \in ClosedTrades(results) :
                    /\ results.trades[k].exit_price = Last(df).close
                    /\ results.trades[k].exit_time = Last(df).time
                    /\ results.trades[k].side = Side

(* C11: after the end-of-window force-close a final equity point is        *)
(* appended, so the last point of the returned curve is the fully realized *)
(* cash: initial capital plus pnl minus the fees of every closed trade,    *)
(* the exit fee of a force-closed position included.  Stated for the runs  *)
(* whose one position is left to the end of the window.                    *)
C11_FinalEquityPoint ==
    Completed =>
        /\ Last(results.equity_curve) = current_capital
        /\ (OnePosition /\ Len(processed) = 1) =>
              Last(results.equity_curve) =
                  initial_capital + ExpectedPnl
                      - EntryPrice * Quantity * commission_rate
                      - ExitPrice * Quantity * commission_rate

(* C12: the equity curve returned for a series of N > 0 bars has N + 1     *)
(* points, the seed equal to the initial capital and one point per bar,    *)
(* whatever the strategy does, raising included.                           *)
C12_EquityCurveLength ==
    Completed =>
        /\ Len(results.equity_curve) = Len(df) + 1
        /\ results.equity_curve[1] = initial_capital

(* C13: when the strategy raises on a bar the replay goes on: the bar is   *)
(* closed as a bar without a signal, positions, cash and trades unchanged  *)
(* and its equity point appended, and the next bar (or the end of the      *)
(* window) follows.                                                        *)
C13_StrategyRaiseIsNoSignal ==
    [][ (pc = "execute" /\ i' = i + 1)
        => /\ open_positions' = open_positions
           /\ heap' = heap
           /\ trades' = trades
           /\ current_capital' = current_capital
           /\ pc' = IF i + 1 < Len(df) THEN "update" ELSE "force_close"
           /\ Len(equity_curve') = Len(equity_curve) + 1 ]_vars

(* The drawdowns of a curve, over its index pairs j <= k.                   *)
Pairs(curve) == {p \in (1..Len(curve)) \X (1..Len(curve)) : p[1] <= p[2]}

DrawdownPercent(curve, p) == Frac((curve[p[1]] - curve[p[2]]) * 100, curve[p[1]])

Drawdown(curve, p) == curve[p[1]] - curve[p[2]]

(* C14: max_drawdown_percent of a result is 100 times the largest          *)
(* (equity[j] - equity[k]) / equity[j] over the index pairs j <= k of its  *)
(* equity curve, and 0 when none is positive.                              *)
C14_MaxDrawdownPercent ==
    (pc = "done" /\ results.equity_curve # <<>>) =>
        LET curve == results.equity_curve
            x == results.max_drawdown_percent
        IN  /\ \A p \in Pairs(curve) : ~FracLess(x, DrawdownPercent(curve, p))
            /\ \E p \in Pairs(curve) : FracEq(x, DrawdownPercent(curve, p))

(* C14 witness: statistics were computed for a curve that rises above the  *)
(* initial capital and falls afterwards.                                   *)
C14_Witness ==
    /\ pc = "done"
    /\ results.total_trades > 0
    /\ Len(results.equity_curve) = 3
    /\ results.equity_curve[2] > results.equity_curve[1]
    /\ results.equity_curve[3] < results.equity_curve[2]
    /\ results.max_drawdown_percent.num > 0

(* C15: max_drawdown of a result is the largest decline equity[j] -        *)
(* equity[k] over the index pairs j <= k of its equity curve: a trough is  *)
(* measured against a peak at or before it.                                *)
C15_MaxDrawdownChronological ==
    (pc = "done" /\ results.equity_curve # <<>>) =>
        LET curve == results.equity_curve
        IN  /\ \A p \in Pairs(curve) : results.max_drawdown >= Drawdown(curve, p)
            /\ \E p \in Pairs(curve) : results.max_drawdown = Drawdown(curve, p)

(* C16: the statistics never hold an infinite or undefined value from a    *)
(* zero denominator: win rate is 0 without trades, Sharpe is 0 when the    *)
(* deviation of the returns is 0, Sortino is 0 without negative returns    *)
(* and when the deviation of the negative returns is 0.                    *)
C16_NoZeroDenominator ==
    pc = "done" =>
        LET negative_returns == SelectSeq(results.daily_returns, LAMBDA r : r.num < 0)
        IN  /\ results.win_rate.den # 0
            /\ results.total_trades = 0 => results.win_rate.num = 0
            /\ ~results.sharpe_ratio.deviation_zero
            /\ std_is_zero(results.daily_returns) => ~results.sharpe_ratio.computed
            /\ ~results.sortino_ratio.deviation_zero
            /\ std_is_zero(negative_returns) => ~results.sortino_ratio.computed

(* C17, as claimed: while bar i is processed, a strategy that inspects the  *)
(* bars so far receives exactly i + 1 bars, bars 0..i in order.            *)
C17_ExactlyBarsSoFar ==
    (view.limit # None /\ view.limit > 0) =>
        /\ Len(view.candles) = i + 1
        /\ \A k \in 1..Len(view.candles) : view.candles[k] = df[k]

(* C17, amended: while bar i is processed, a strategy that asks for the    *)
(* last limit candles receives exactly min(i + 1, limit) bars, the most    *)
(* recent ones up to and including bar i, in chronological order; that is  *)
(* bars 0..i whenever limit > i.                                           *)
C17_BarsSoFarWindow ==
    view.limit # None =>
        LET n == IF i + 1 < view.limit THEN i + 1 ELSE view.limit
        IN  /\ Len(view.candles) = n
            /\ \A k \in 1..n : view.candles[k] = df[i + 1 - n + k]
            /\ view.limit > i =>
                  view.candles = SubSeq(df, 1, i + 1)

(* C17 witness: on a bar with an earlier bar before it, the strategy asked *)
(* for fewer candles than have been replayed and received that many.       *)
C17_Witness ==
    /\ pc = "execute"
    /\ view.limit # None
    /\ view.limit > 0
    /\ view.limit <= i
    /\ Len(view.candles) = view.limit
    /\ Last(view.candles) = df[i + 1]

(* C18: when the exchange client raises for the requested range, the run   *)
(* reports a failure its caller can tell from a valid empty result: it     *)
(* never returns a result of zero trades as a finished backtest does.      *)
C18_ProviderFailureSurfaces ==
    provider = "raises" =>
        ~(/\ pc = "done"
          /\ results.total_trades = 0
          /\ results.trades = <<>>)

(* C19: when the client answers with an empty series, the run raises       *)
(* nothing, never invokes the strategy and returns a result with zero      *)
(* trades and every statistic at its zero default.                         *)
C19_EmptySeries ==
    (provider = "answers" /\ df = <<>>) =>
        /\ pc \in {"fetch", "done"}
        /\ view = EmptyView
        /\ processed = <<>>
        /\ pc = "done" =>
              /\ results.total_trades = 0
              /\ results.winning_trades = 0
              /\ results.losing_trades = 0
              /\ results.win_rate = Frac(0, 1)
              /\ results.total_return = 0
              /\ results.total_return_percent = Frac(0, 1)
              /\ results.total_fees = 0
              /\ results.max_drawdown = 0
              /\ results.max_drawdown_percent = Frac(0, 1)
              /\ ~results.sharpe_ratio.computed
              /\ ~results.sortino_ratio.computed
              /\ results.trades = <<>>
              /\ results.equity_curve = <<>>

(* C19 witness: the run has returned for an empty series the client        *)
(* answered with.                                                          *)
C19_Witness ==
    /\ provider = "answers"
    /\ df = <<>>
    /\ pc = "done"
    /\ results = BacktestResults

(* C20: a run asked for with start >= end fails with an invalid-range      *)
(* error before any data is fetched or any bar processed: it never gets    *)
(* past the fetch, and never returns a result.                             *)
C20_InvalidRange ==
    start_date >= end_date =>
        pc \notin {"update", "execute", "signals", "force_close", "results", "done"}

(* ------------------------- C21..C30: properties ------------------------ *)

FlatMarket == \A k \in 1..Len(df) : df[k].close = df[1].close

AtInitialCapital(curve) == \A k \in 1..Len(curve) : curve[k] = initial_capital

(* C25: when every bar has the same close and no signal of the strategy    *)
(* reaches the ledger, the finished run reports zero trades, an equity     *)
(* curve whose every point is the initial capital, a win rate, a total     *)
(* return, a Sharpe and a Sortino ratio of zero and a maximum drawdown of  *)
(* zero percent.                                                           *)
C25_FlatMarketNoSignals ==
    (Completed /\ FlatMarket /\ processed = <<>>) =>
        /\ results.total_trades = 0
        /\ results.trades = <<>>
        /\ AtInitialCapital(equity_curve)
        /\ AtInitialCapital(results.equity_curve)
        /\ results.win_rate = Frac(0, 1)
        /\ results.total_return = 0
        /\ results.total_return_percent = Frac(0, 1)
        /\ ~results.sharpe_ratio.computed
        /\ ~results.sortino_ratio.computed
        /\ results.max_drawdown = 0
        /\ results.max_drawdown_percent = Frac(0, 1)

(* C25 witness: a run over two bars of equal close has returned, no signal *)
(* was processed, and both bars gave their equity point.                   *)
C25_Witness ==
    /\ Completed
    /\ Len(df) = 2
    /\ FlatMarket
    /\ processed = <<>>
    /\ Len(equity_curve) = 3
    /\ results.equity_curve = equity_curve
    /\ results.total_trades = 0

(* C23: an opening signal whose price is zero is rejected by the signal    *)
(* validation: the call returns without a position, a trade or a change of *)
(* cash, and the loop goes on with the bar's next signal; no position of   *)
(* zero entry notional is ever held, so no percentage is computed from     *)
(* one.                                                                    *)
C23_ZeroPriceOpenRejected ==
    [][ (/\ Len(processed') = Len(processed) + 1
         /\ Opens(Last(processed'))
         /\ Last(processed').signal.price = 0)
        => /\ pc' = "signals"
           /\ i' = i
           /\ open_positions' = open_positions
           /\ heap' = heap
           /\ trades' = trades
           /\ current_capital' = current_capital
           /\ \A k \in 1..Len(heap') :
                  heap'[k].entry_price * heap'[k].quantity # 0 ]_vars

(* C26: each position the strategy opened contributes exactly one record   *)
(* to the closed trades of the result: after a run in which one position   *)
(* was opened, closed by a signal or left to the end of the window,        *)
(* total_trades is one and the trade list holds one closed trade.          *)
C26_OneRecordPerPosition ==
    (Completed /\ OnePosition) =>
        /\ results.total_trades = 1
        /\ Cardinality(ClosedTrades(results)) = 1
        /\ Len(results.trades) = 1

(* The objects held in a dict of open positions.                           *)
Held(op) == {op[k].id : k \in 1..Len(op)}

C30_CacheKeyedByRange ==
    (served # <<>> /\ served.hit) => served.frame = candles_frame(served.request)

(* C24: a parameter sweep runs at most 100 backtests whatever the size of  *)
(* the requested ranges: the combinations tested are, in order, a prefix   *)
(* of the generated ones, never more than 100 of them; a finished sweep    *)
(* has tested all of them when there are at most 100 and exactly the first *)
(* 100 otherwise, and reports a number of combinations tested that is the  *)
(* number it ran and never exceeds 100.                                    *)
C24_SweepLimit ==
    sweep # NoSweep =>
        LET all == IF UnknownType(sweep.parameter_ranges) THEN <<>>
                   ELSE generate_combinations(sweep.parameter_ranges, <<>>)
            first == IF Len(all) > 100 THEN 100 ELSE Len(all)
        IN  /\ Len(sweep.tested) <= 100
            /\ sweep.tested = SubSeq(all, 1, Len(sweep.tested))
            /\ (sweep.step = "responded" /\ sweep.response.status = 200) =>
                  /\ Len(sweep.tested) = first
                  /\ sweep.response.total_combinations_tested = Len(sweep.tested)
                  /\ sweep.response.total_combinations_tested <= 100

(* C24 witness: a sweep over more than 100 generated combinations has      *)
(* answered, having tested 100.                                            *)
C24_Witness ==
    /\ sweep # NoSweep
    /\ sweep.step = "responded"
    /\ sweep.generated > 100
    /\ Len(sweep.tested) = 100
    /\ sweep.response.total_combinations_tested = 100

(* The combinations of a batch that fail: the strategy cannot be created,  *)
(* or the backtest raises.                                                 *)
FailsIn(b, c) ==
    create_strategy_raises(b.strategy_names[c[1]]) \/ c \in b.raising

EntriesOf(b, c) ==
    {e \in 1..Len(b.response.entries) :
        /\ b.response.entries[e].strategy = b.strategy_names[c[1]]
        /\ b.response.entries[e].symbol = b.symbols[c[2]]}

(* C21: the failure of one combination never aborts a batch.  When a       *)
(* multi-symbol run or a comparison in which some combination can succeed  *)
(* has answered, it has answered with its entries, each combination has    *)
(* exactly one entry, a failed one an entry that reports the error and     *)
(* every other one its own result; a sweep that has answered holds one     *)
(* entry per combination tested, in order, with the error of those that    *)
(* failed.                                                                 *)
C21_FailureIsolated ==
    /\ (/\ batch.step = "responded"
        /\ \E c \in BatchCombinations(batch.strategy_names, batch.symbols) :
               ~FailsIn(batch, c))
       => /\ batch.response.status = 200
          /\ \A c \in BatchCombinations(batch.strategy_names, batch.symbols) :
                /\ Cardinality(EntriesOf(batch, c)) = 1
                /\ \A e \in EntriesOf(batch, c) :
                      IF FailsIn(batch, c)
                      THEN batch.response.entries[e].error
                      ELSE /\ ~batch.response.entries[e].error
                           /\ batch.response.entries[e].result =
                                ResultOf(batch.strategy_names[c[1]],
                                         batch.symbols[c[2]])
    /\ (sweep.step = "responded" /\ ~UnknownType(sweep.parameter_ranges))
       => /\ sweep.response.status = 200
          /\ Len(sweep.optimization_results) = Len(sweep.param_combinations)
          /\ \A k \in 1..Len(sweep.param_combinations) :
                /\ sweep.optimization_results[k].parameters =
                     sweep.param_combinations[k]
                /\ sweep.optimization_results[k].error = (k \in sweep.failing)

ClosesOf(frame) == {frame[k].close : k \in 1..Len(frame)}

OnlyOpening(signals) ==
    \A k \in 1..Len(signals) : signals[k].action \in {"BUY", "SELL_SHORT"}

ForceClosed(t, frame) ==
    ~t.is_open => (t.exit_time = Last(frame).time /\ t.exit_price = Last(frame).close)

====
